---------------------------- MODULE Spec2Model ----------------------------
(***************************************************************************)
(* Model of scripts/token-usage.py: the per-line parser with its channel   *)
(* attribution (scan_sessions), the timestamp conversion (to_local) and    *)
(* the aggregation (aggregate).                                            *)
(*                                                                         *)
(* A line of a session file is modelled by what json.loads makes of it.    *)
(* Python values that may be absent, null or of the wrong type are tagged  *)
(* records: the tag k says which, the payload is only read under its tag.  *)
(* Monetary amounts (floats in the program) are integers in a fixed unit.  *)
(***************************************************************************)
EXTENDS Integers, Sequences, FiniteSets, TLC

VARIABLES
    pc,               \* where scan_sessions is: start, glob, lines, returned, crashed
    nfiles,           \* files the glob loop has yielded so far
    nlines,           \* history: lines read so far, over all files
    session_id,       \* f.stem of the open file (line 75)
    session_channel,  \* line 76: None, or the tag set by the last user message
    entries,          \* the records appended so far (line 63, 127)
    last_user,        \* history: text of the last user message of the open file
    seen_user,        \* history: whether the open file had a user message yet
    prev_final,       \* history: session_channel when the previous file ended
    last_kind,        \* history: the kind of line the last step read
    emitted,          \* history: records the last step appended
    shadow,           \* the same parse fed the open file without its undecodable lines
    recs,             \* aggregate's argument
    taken,            \* indices of recs the second fold has folded
    agg,              \* aggregate's agg after folding the first Cardinality(taken) records
    aggP,             \* agg of the second fold, which takes the records in another order
    arg,              \* argument of the pure function under check
    res,              \* its result
    applied           \* whether it has been applied

scanVars == <<pc, nfiles, nlines, session_id, session_channel, entries,
              last_user, seen_user, prev_final, last_kind, emitted, shadow>>
aggVars == <<recs, taken, agg, aggP>>
pureVars == <<arg, res, applied>>
vars == <<scanVars, aggVars, pureVars>>

-----------------------------------------------------------------------------
(* Bounds of the model.                                                    *)

MaxFiles == 2
MaxLines == 4
MaxRecs == 3
MaxChunks == 2

-----------------------------------------------------------------------------
(* Python values.                                                          *)

\* a string-valued field: absent key, null, or a string
AbsentS == [k |-> "absent", s |-> ""]
NoneS == [k |-> "null", s |-> ""]
Str(s) == [k |-> "str", s |-> s]

\* a number-valued field: absent key, null, or a number
AbsentN == [k |-> "absent", n |-> 0]
NullN == [k |-> "null", n |-> 0]
Num(n) == [k |-> "num", n |-> n]

\* usage.get(key, 0) or 0
OrZero(v) == IF v.k = "num" THEN v.n ELSE 0

\* text in haystack, for Python strings
Contains(text, marker) ==
    \E i \in 1..(Len(text) - Len(marker) + 1) :
        SubSeq(text, i, i + Len(marker) - 1) = marker


-----------------------------------------------------------------------------
(* Calendar and clock arithmetic of datetime and timedelta.                *)

IsLeap(y) == (y % 4 = 0 /\ y % 100 # 0) \/ y % 400 = 0

DaysInMonth(y, m) ==
    IF m = 2 THEN (IF IsLeap(y) THEN 29 ELSE 28)
    ELSE IF m \in {4, 6, 9, 11} THEN 30 ELSE 31

PrevDay(date) ==
    IF date.d > 1 THEN [date EXCEPT !.d = date.d - 1]
    ELSE IF date.m > 1
         THEN [y |-> date.y, m |-> date.m - 1, d |-> DaysInMonth(date.y, date.m - 1)]
         ELSE [y |-> date.y - 1, m |-> 12, d |-> 31]

NextDay(date) ==
    IF date.d < DaysInMonth(date.y, date.m) THEN [date EXCEPT !.d = date.d + 1]
    ELSE IF date.m < 12
         THEN [y |-> date.y, m |-> date.m + 1, d |-> 1]
         ELSE [y |-> date.y + 1, m |-> 1, d |-> 1]

RECURSIVE ShiftDays(_, _)
ShiftDays(date, n) ==
    IF n = 0 THEN date
    ELSE IF n < 0 THEN ShiftDays(PrevDay(date), n + 1)
    ELSE ShiftDays(NextDay(date), n - 1)

\* datetime + timedelta(minutes = delta): the wall clock moves, tzinfo stays
AddMinutes(dt, delta) ==
    LET total == dt.minute + delta
    IN  [dt EXCEPT !.date = ShiftDays(dt.date, total \div 1440),
                   !.minute = total % 1440]

Digits == "0123456789"
Digit(n) == SubSeq(Digits, n + 1, n + 1)
Pad2(n) == Digit((n \div 10) % 10) \o Digit(n % 10)
Pad4(n) == Pad2(n \div 100) \o Pad2(n % 100)

\* local_dt.strftime("%Y-%m-%d")
strftime(dt) == Pad4(dt.date.y) \o "-" \o Pad2(dt.date.m) \o "-" \o Pad2(dt.date.d)

\* local_dt.hour
HourOf(dt) == dt.minute \div 60

-----------------------------------------------------------------------------
(* to_local.                                                               *)

\* the outer record's "timestamp": absent, null, "", a malformed string, a
\* number, or an ISO-8601 string whose form is Z, offset (+hh:mm) or naive
NoDate == [y |-> 0, m |-> 0, d |-> 0]
TsOther(k) == [k |-> k, date |-> NoDate, minute |-> 0, off |-> 0, form |-> ""]
TsIso(date, minute, off, form) ==
    [k |-> "iso", date |-> date, minute |-> minute, off |-> off, form |-> form]

\* `if ts` (line 120)
TsTruthy(ts) == ts.k \in {"garbage", "number", "iso"}

TZ_OFFSET == -8

NoneDt == [ok |-> FALSE, date |-> NoDate, minute |-> 0, off |-> 0]

\* datetime.fromisoformat(ts_str.replace("Z", "+00:00")): the fields as
\* written, with the offset as tzinfo; ok = FALSE when it raises
fromisoformat(ts) ==
    IF ts.k = "iso"
    THEN [ok |-> TRUE, date |-> ts.date, minute |-> ts.minute,
          off |-> IF ts.form = "Z" THEN 0 ELSE ts.off]
    ELSE NoneDt

\* as to_local, but the offset is subtracted
to_local_sign_slip(ts) ==
    LET dt == fromisoformat(ts)
    IN  IF dt.ok THEN AddMinutes(dt, 0 - TZ_OFFSET * 60) ELSE NoneDt

to_local(ts) ==
    LET dt == fromisoformat(ts)
    IN  IF dt.ok THEN AddMinutes(dt, TZ_OFFSET * 60) ELSE NoneDt

-----------------------------------------------------------------------------
(* The shapes of a decoded line.                                           *)

\* a content block: a dict of type text or of another type, or not a dict;
\* its "text" is a tagged string (k: absent, str, null, number)
TextBlock(t) == [k |-> "text", text |-> t]
ImageBlock == [k |-> "image", text |-> AbsentS]
NonDictBlock == [k |-> "nondict", text |-> AbsentS]

\* message.content: absent, a string, a list of blocks, or anything else
ContentAbsent == [k |-> "absent", s |-> "", blocks |-> <<>>]
ContentStr(s) == [k |-> "str", s |-> s, blocks |-> <<>>]
ContentList(blocks) == [k |-> "list", s |-> "", blocks |-> blocks]
ContentOther == [k |-> "other", s |-> "", blocks |-> <<>>]

\* usage.cost: absent, null, a truthy non-mapping (number), or a mapping
CostOther(k) ==
    [k |-> k, total |-> AbsentN, input |-> AbsentN, output |-> AbsentN,
     cacheRead |-> AbsentN, cacheWrite |-> AbsentN]
CostDict(total, input, output, cacheRead, cacheWrite) ==
    [k |-> "dict", total |-> total, input |-> input, output |-> output,
     cacheRead |-> cacheRead, cacheWrite |-> cacheWrite]

\* usage: absent, null, {} (empty), a truthy non-mapping (number), or a
\* non-empty mapping
UsageOther(k) ==
    [k |-> k, input |-> AbsentN, output |-> AbsentN, cacheRead |-> AbsentN,
     cacheWrite |-> AbsentN, totalTokens |-> AbsentN, cost |-> CostOther("absent")]
UsageDict(input, output, cacheRead, cacheWrite, totalTokens, cost) ==
    [k |-> "dict", input |-> input, output |-> output, cacheRead |-> cacheRead,
     cacheWrite |-> cacheWrite, totalTokens |-> totalTokens, cost |-> cost]

\* bool(usage)
UsageTruthy(u) == u.k \in {"number", "dict"}

\* json.loads(line): json is bad when it raises, else the type of the value;
\* the other fields are those of an object. message is absent (d.get gives
\* {}), a mapping (dict) or anything else (nonmapping); role is that of msg
NoLine ==
    [json |-> "none", message |-> "absent", role |-> "absent",
     content |-> ContentAbsent, usage |-> UsageOther("absent"),
     outer_usage |-> UsageOther("absent"), timestamp |-> TsOther("absent"),
     model |-> AbsentS, provider |-> AbsentS,
     outer_model |-> AbsentS, outer_provider |-> AbsentS]
BadLine == [NoLine EXCEPT !.json = "bad"]
NonObjectLine(type) == [NoLine EXCEPT !.json = type]
ObjectLine == [NoLine EXCEPT !.json = "object"]

-----------------------------------------------------------------------------
(* scan_sessions, the body of the loop over the lines of a file.           *)

\* as detect_channel, with the webchat marker tested first
detect_channel_webchat_first(text) ==
    IF Contains(text, "[message_id:") THEN "webchat"
    ELSE IF Contains(text, "[Telegram") THEN "telegram"
    ELSE IF Contains(text, "[Discord") THEN "discord"
    ELSE IF Contains(text, "[Signal") THEN "signal"
    ELSE IF Contains(text, "[Slack") THEN "slack"
    ELSE "other"

\* lines 99-110
detect_channel(text) ==
    IF Contains(text, "[Telegram") THEN "telegram"
    ELSE IF Contains(text, "[Discord") THEN "discord"
    ELSE IF Contains(text, "[Signal") THEN "signal"
    ELSE IF Contains(text, "[Slack") THEN "slack"
    ELSE IF Contains(text, "[message_id:") THEN "webchat"
    ELSE "other"

\* lines 90-98: the text of the first dict block of type text (its "text",
\* "" when that key is absent), the string itself, or ""
extract_user_text(content) ==
    IF content.k = "list"
    THEN LET hits == {i \in 1..Len(content.blocks) : content.blocks[i].k = "text"}
         IN  IF hits = {} THEN Str("")
             ELSE LET c == content.blocks[CHOOSE i \in hits : \A j \in hits : i <= j]
                  IN  IF c.text.k = "absent" THEN Str("") ELSE c.text
    ELSE IF content.k = "str" THEN Str(content.s)
    ELSE Str("")

\* as user_channel, but a text without marker keeps the channel already set
user_channel_sticky(channel, content) ==
    LET text == extract_user_text(content)
    IN  IF text.k # "str" THEN [raised |-> TRUE, channel |-> channel]
        ELSE IF detect_channel(text.s) = "other" /\ channel.k = "str"
        THEN [raised |-> FALSE, channel |-> channel]
        ELSE [raised |-> FALSE, channel |-> Str(detect_channel(text.s))]

\* lines 89-110: the channel after a user message; `in` raises TypeError on
\* a text that is no string
user_channel(channel, content) ==
    LET text == extract_user_text(content)
    IN  IF text.k = "str"
        THEN [raised |-> FALSE, channel |-> Str(detect_channel(text.s))]
        ELSE [raised |-> TRUE, channel |-> channel]

\* msg.get(key, d.get(key, "unknown"))
get_name(inner, outer) ==
    IF inner.k # "absent" THEN inner
    ELSE IF outer.k # "absent" THEN outer
    ELSE Str("unknown")

\* as make_entry, but session_id is the whole stem
make_entry_untruncated(line, usage, local_dt, sid, channel) ==
    [date |-> strftime(local_dt),
     hour |-> HourOf(local_dt),
     model |-> get_name(line.model, line.outer_model),
     provider |-> get_name(line.provider, line.outer_provider),
     session_id |-> sid,
     channel |-> IF channel.k = "str" THEN channel.s ELSE "unknown",
     input |-> OrZero(usage.input),
     output |-> OrZero(usage.output),
     cache_read |-> OrZero(usage.cacheRead),
     cache_write |-> OrZero(usage.cacheWrite),
     total |-> OrZero(usage.totalTokens),
     cost |-> OrZero(usage.cost.total),
     cost_input |-> OrZero(usage.cost.input),
     cost_output |-> OrZero(usage.cost.output),
     cost_cache_read |-> OrZero(usage.cost.cacheRead),
     cost_cache_write |-> OrZero(usage.cost.cacheWrite)]

\* lines 124-144: the record of one assistant message
make_entry(line, usage, local_dt, sid, channel) ==
    [date |-> strftime(local_dt),
     hour |-> HourOf(local_dt),
     model |-> get_name(line.model, line.outer_model),
     provider |-> get_name(line.provider, line.outer_provider),
     session_id |-> SubSeq(sid, 1, IF Len(sid) < 8 THEN Len(sid) ELSE 8),
     channel |-> IF channel.k = "str" THEN channel.s ELSE "unknown",
     input |-> OrZero(usage.input),
     output |-> OrZero(usage.output),
     cache_read |-> OrZero(usage.cacheRead),
     cache_write |-> OrZero(usage.cacheWrite),
     total |-> OrZero(usage.totalTokens),
     cost |-> OrZero(usage.cost.total),
     cost_input |-> OrZero(usage.cost.input),
     cost_output |-> OrZero(usage.cost.output),
     cost_cache_read |-> OrZero(usage.cost.cacheRead),
     cost_cache_write |-> OrZero(usage.cost.cacheWrite)]

Skip(channel) == [raised |-> FALSE, channel |-> channel, out |-> <<>>]
Raise(channel) == [raised |-> TRUE, channel |-> channel, out |-> <<>>]

\* as on_decode_error, but the channel state is lost with the line
on_decode_error_resets(channel) == Skip(NoneS)

\* lines 81-82: json.loads raised
on_decode_error(channel) == Skip(channel)

\* as assistant_part, but emitting a record uses the channel state up
assistant_part_consuming(channel, sid, line) ==
    IF line.role # "assistant" THEN Skip(channel)
    ELSE LET usage == IF UsageTruthy(line.usage) THEN line.usage ELSE line.outer_usage
             ts == line.timestamp
             local_dt == IF TsTruthy(ts) THEN to_local(ts) ELSE NoneDt
         IN  IF ~UsageTruthy(usage) THEN Skip(channel)
             ELSE IF ~local_dt.ok THEN Skip(channel)
             ELSE IF usage.k # "dict" THEN Raise(channel)
             ELSE IF usage.cost.k = "number" THEN Raise(channel)
             ELSE [raised |-> FALSE, channel |-> NoneS,
                   out |-> <<make_entry(line, usage, local_dt, sid, channel)>>]

\* lines 112-144, for a message that is a mapping
assistant_part(channel, sid, line) ==
    IF line.role # "assistant" THEN Skip(channel)
    ELSE LET usage == IF UsageTruthy(line.usage) THEN line.usage ELSE line.outer_usage
             ts == line.timestamp
             local_dt == IF TsTruthy(ts) THEN to_local(ts) ELSE NoneDt
         IN  IF ~UsageTruthy(usage) THEN Skip(channel)
             ELSE IF ~local_dt.ok THEN Skip(channel)
             ELSE IF usage.k # "dict" THEN Raise(channel)
             ELSE IF usage.cost.k = "number" THEN Raise(channel)
             ELSE [raised |-> FALSE, channel |-> channel,
                   out |-> <<make_entry(line, usage, local_dt, sid, channel)>>]

\* lines 79-144: one pass of the loop body; raised when an exception leaves it
parse_line(channel, sid, line) ==
    IF line.json = "bad" THEN on_decode_error(channel)
    ELSE IF line.json # "object" THEN Raise(channel)
    ELSE IF line.message = "nonmapping" THEN Skip(channel)
    ELSE IF line.role = "user"
         THEN LET u == user_channel(channel, line.content)
              IN  IF u.raised THEN Raise(channel) ELSE Skip(u.channel)
         ELSE assistant_part(channel, sid, line)

-----------------------------------------------------------------------------
(* The lines the model reads.                                              *)

T_telegram == "[Telegram user id:1] hello"
T_webchat == "msg2\n[message_id: m2]"
T_plain == "system restart notification"
T_both == "[Telegram Chunhua Liao id:123]\n[message_id: xyz]"

ScanTexts == {T_telegram, T_webchat, T_plain}

UserLine(content) ==
    [ObjectLine EXCEPT !.message = "dict", !.role = "user", !.content = content,
                       !.timestamp = TsIso([y |-> 2026, m |-> 2, d |-> 2], 1200, 0, "Z")]

UserLines ==
    {UserLine(ContentList(<<TextBlock(Str(t))>>)) : t \in ScanTexts}
    \cup {UserLine(c) : c \in {ContentStr(T_telegram), ContentAbsent, ContentOther,
                               ContentList(<<>>),
                               ContentList(<<ImageBlock, TextBlock(Str(T_webchat))>>),
                               ContentList(<<NonDictBlock, TextBlock(AbsentS)>>),
                               ContentList(<<TextBlock(NoneS)>>)}}

Cost1 == CostDict(Num(16), Num(1), Num(5), Num(3), Num(7))
Usage1 == UsageDict(Num(10), Num(50), Num(1000), Num(500), Num(1560), Cost1)
Usage2 == UsageDict(Num(5), Num(30), AbsentN, NullN, Num(35), CostOther("null"))
UsageBadCost == UsageDict(Num(1), Num(1), AbsentN, AbsentN, Num(2), CostOther("number"))

Ts1 == TsIso([y |-> 2026, m |-> 2, d |-> 3], 270, 0, "Z")
Ts2 == TsIso([y |-> 2026, m |-> 3, d |-> 1], 780, 300, "offset")
Ts3 == TsIso([y |-> 2026, m |-> 2, d |-> 3], 330, 0, "offset")

AssistantLine(usage, ts) ==
    [ObjectLine EXCEPT !.message = "dict", !.role = "assistant",
                       !.content = ContentList(<<TextBlock(Str("Response text."))>>),
                       !.usage = usage, !.timestamp = ts,
                       !.model = Str("opus"), !.provider = Str("anthropic")]

AssistantLines ==
    {AssistantLine(Usage1, Ts1),
     [AssistantLine(Usage2, Ts2) EXCEPT !.model = Str("flash"), !.provider = AbsentS],
     [AssistantLine(UsageOther("empty"), Ts3) EXCEPT
         !.outer_usage = Usage2, !.model = AbsentS, !.outer_model = Str("flash")]}
    \cup {AssistantLine(u, Ts1) : u \in {UsageOther("absent"), UsageOther("null"),
                                         UsageOther("empty"), UsageOther("number"),
                                         UsageBadCost}}
    \cup {AssistantLine(Usage1, TsOther(k)) : k \in {"absent", "null", "empty",
                                                     "garbage", "number"}}
    \cup {AssistantLine(UsageOther("number"), TsOther("garbage"))}

OtherLines ==
    {BadLine, NonObjectLine("number"), NonObjectLine("list"), ObjectLine,
     [ObjectLine EXCEPT !.message = "nonmapping"],
     [ObjectLine EXCEPT !.message = "dict"],
     [ObjectLine EXCEPT !.message = "dict", !.role = "system",
                        !.usage = Usage1, !.timestamp = Ts1]}

Lines == UserLines \cup AssistantLines \cup OtherLines

\* the stems of the files of the sessions directory, in glob's order
Stems == <<"0a1b2c3d-4e5f", "sess", "0a1b2c3d-9999">>
StemOf(n) == Stems[((n - 1) % Len(Stems)) + 1]

-----------------------------------------------------------------------------
(* aggregate.                                                              *)

\* a defaultdict is a function on the keys it holds
Lookup_fresh(m, key, default) == default

Lookup(m, key, default) == IF key \in DOMAIN m THEN m[key] ELSE default
Put(m, key, v) == [x \in DOMAIN m \cup {key} |-> IF x = key THEN v ELSE m[x]]
EmptyMap == [x \in {} |-> 0]

\* lines 193-198: the zero accumulators
ZeroTotals ==
    [input |-> 0, output |-> 0, cache_read |-> 0, cache_write |-> 0,
     total |-> 0, cost |-> 0, calls |-> 0]
ZeroDate == ZeroTotals
ZeroModel ==
    [input |-> 0, output |-> 0, cache_read |-> 0, cache_write |-> 0,
     total |-> 0, cost |-> 0, cost_input |-> 0, cost_output |-> 0,
     cost_cache_read |-> 0, cost_cache_write |-> 0, calls |-> 0]
ZeroChannel == [input |-> 0, output |-> 0, total |-> 0, cost |-> 0, calls |-> 0]
ZeroSession ==
    [input |-> 0, output |-> 0, total |-> 0, cost |-> 0, calls |-> 0,
     channel |-> "?", model |-> Str("?")]
ZeroHour == [total |-> 0, calls |-> 0]

\* lines 192-199
EmptyAgg ==
    [totals |-> ZeroTotals, by_date |-> EmptyMap, by_model |-> EmptyMap,
     by_channel |-> EmptyMap, by_session |-> EmptyMap, by_hour |-> EmptyMap]

\* as add_totals, but total is assigned, not added
add_totals_assigning(t, e) ==
    [t EXCEPT !.input = @ + e.input, !.output = @ + e.output,
              !.cache_read = @ + e.cache_read, !.cache_write = @ + e.cache_write,
              !.total = e.total, !.cost = @ + e.cost, !.calls = @ + 1]

\* lines 202-204
add_totals(t, e) ==
    [t EXCEPT !.input = @ + e.input, !.output = @ + e.output,
              !.cache_read = @ + e.cache_read, !.cache_write = @ + e.cache_write,
              !.total = @ + e.total, !.cost = @ + e.cost, !.calls = @ + 1]

\* as add_common, but output is assigned, not added
add_common_assigning(b, e) ==
    [b EXCEPT !.input = @ + e.input, !.output = e.output,
              !.total = @ + e.total, !.cost = @ + e.cost, !.calls = @ + 1]

\* lines 208-212: what every keyed bucket gets
add_common(b, e) ==
    [b EXCEPT !.input = @ + e.input, !.output = @ + e.output,
              !.total = @ + e.total, !.cost = @ + e.cost, !.calls = @ + 1]

\* lines 213-215
add_cache(b, e) ==
    [b EXCEPT !.cache_read = @ + e.cache_read, !.cache_write = @ + e.cache_write]

\* lines 216-220
add_cost_parts(b, e) ==
    [b EXCEPT !.cost_input = @ + e.cost_input, !.cost_output = @ + e.cost_output,
              !.cost_cache_read = @ + e.cost_cache_read,
              !.cost_cache_write = @ + e.cost_cache_write]

\* lines 221-223
set_last_seen(b, e) == [b EXCEPT !.channel = e.channel, !.model = e.model]

\* as add_hour, but the call is not counted
add_hour_uncounted(b, e) == [b EXCEPT !.total = @ + e.total]

\* lines 225-226
add_hour(b, e) == [b EXCEPT !.total = @ + e.total, !.calls = @ + 1]

\* lines 201-226: the loop body, one record folded into agg
fold_entry(a, e) ==
    [totals |-> add_totals(a.totals, e),
     by_date |-> Put(a.by_date, e.date,
                     add_cache(add_common(Lookup(a.by_date, e.date, ZeroDate), e), e)),
     by_model |-> Put(a.by_model, e.model,
                      add_cost_parts(add_cache(add_common(
                          Lookup(a.by_model, e.model, ZeroModel), e), e), e)),
     by_channel |-> Put(a.by_channel, e.channel,
                        add_common(Lookup(a.by_channel, e.channel, ZeroChannel), e)),
     by_session |-> Put(a.by_session, e.session_id,
                        set_last_seen(add_common(
                            Lookup(a.by_session, e.session_id, ZeroSession), e), e)),
     by_hour |-> Put(a.by_hour, e.hour,
                     add_hour(Lookup(a.by_hour, e.hour, ZeroHour), e))]

-----------------------------------------------------------------------------
(* scan_sessions as a state machine: the files of the glob, line by line.  *)

\* what a line is, read off its shape alone
IsUserLine(line) ==
    line.json = "object" /\ line.message = "dict" /\ line.role = "user"
IsAssistantLine(line) ==
    line.json = "object" /\ line.message = "dict" /\ line.role = "assistant"
HasUsage(line) ==
    line.usage.k = "dict" \/ (line.usage.k # "dict" /\ line.outer_usage.k = "dict")
LineKind(line) ==
    IF line.json = "bad" THEN "undecodable"
    ELSE IF line.json # "object" THEN "not an object"
    ELSE IF line.message = "nonmapping" THEN "message not a mapping"
    ELSE IF IsUserLine(line) THEN "user"
    ELSE IF ~IsAssistantLine(line) THEN "other role"
    ELSE IF ~HasUsage(line) THEN "assistant without usage"
    ELSE IF line.timestamp.k # "iso" THEN "assistant without timestamp"
    ELSE "assistant with usage and timestamp"

\* the text of a user message: its first content block of type text, the
\* plain string, else empty
UserText(content) ==
    IF content.k = "str" THEN content.s
    ELSE IF content.k = "list" /\ \E i \in 1..Len(content.blocks) :
                                      content.blocks[i].k = "text"
    THEN LET i == CHOOSE i \in 1..Len(content.blocks) :
                      /\ content.blocks[i].k = "text"
                      /\ \A j \in 1..(i - 1) : content.blocks[j].k # "text"
         IN  content.blocks[i].text.s
    ELSE ""

\* as open_channel, but the state of the last file is carried over
open_channel_kept(channel) == channel

\* line 76: the channel a file starts with, whatever the last file left
open_channel(channel) == NoneS

ScanInit ==
    /\ pc = "start"
    /\ nfiles = 0
    /\ nlines = 0
    /\ session_id = ""
    /\ session_channel = NoneS
    /\ entries = <<>>
    /\ last_user = ""
    /\ seen_user = FALSE
    /\ prev_final = NoneS
    /\ last_kind = "none"
    /\ emitted = 0
    /\ shadow = [channel |-> NoneS, entries |-> <<>>, raised |-> FALSE]

\* lines 65-66: no sessions directory
DirMissing ==
    /\ pc = "start"
    /\ pc' = "returned"
    /\ UNCHANGED <<nfiles, nlines, session_id, session_channel, entries, last_user,
                   seen_user, prev_final, last_kind, emitted, shadow>>
    /\ UNCHANGED <<aggVars, pureVars>>

BeginGlob ==
    /\ pc = "start"
    /\ pc' = "glob"
    /\ UNCHANGED <<nfiles, nlines, session_id, session_channel, entries, last_user,
                   seen_user, prev_final, last_kind, emitted, shadow>>
    /\ UNCHANGED <<aggVars, pureVars>>

\* lines 69-73: a file older than the cutoff, or one stat fails on
SkipFile ==
    /\ pc = "glob"
    /\ nfiles < MaxFiles
    /\ nfiles' = nfiles + 1
    /\ UNCHANGED <<pc, nlines, session_id, session_channel, entries, last_user,
                   seen_user, prev_final, last_kind, emitted, shadow>>
    /\ UNCHANGED <<aggVars, pureVars>>

\* lines 75-76
OpenFile(stem) ==
    /\ pc = "glob"
    /\ nfiles < MaxFiles
    /\ nfiles' = nfiles + 1
    /\ pc' = "lines"
    /\ session_id' = stem
    /\ session_channel' = open_channel(session_channel)
    /\ last_user' = ""
    /\ seen_user' = FALSE
    /\ last_kind' = "none"
    /\ emitted' = 0
    /\ shadow' = [channel |-> NoneS, entries |-> entries, raised |-> FALSE]
    /\ UNCHANGED <<nlines, entries, prev_final>>
    /\ UNCHANGED <<aggVars, pureVars>>

\* lines 78-144: the next line of the open file
ReadLine(line) ==
    /\ pc = "lines"
    /\ nlines < MaxLines
    /\ LET r == parse_line(session_channel, session_id, line)
           q == parse_line(shadow.channel, session_id, line)
       IN  /\ pc' = IF r.raised THEN "crashed" ELSE "lines"
           /\ session_channel' = r.channel
           /\ entries' = entries \o r.out
           /\ emitted' = Len(r.out)
           /\ shadow' = IF line.json = "bad" \/ shadow.raised THEN shadow
                        ELSE [channel |-> q.channel, entries |-> shadow.entries \o q.out,
                              raised |-> q.raised]
    /\ nlines' = nlines + 1
    /\ last_kind' = LineKind(line)
    /\ last_user' = IF IsUserLine(line) THEN UserText(line.content) ELSE last_user
    /\ seen_user' = (seen_user \/ IsUserLine(line))
    /\ UNCHANGED <<nfiles, session_id, prev_final>>
    /\ UNCHANGED <<aggVars, pureVars>>

\* line 78: the file is exhausted
EndOfFile ==
    /\ pc = "lines"
    /\ pc' = "glob"
    /\ prev_final' = session_channel
    /\ UNCHANGED <<nfiles, nlines, session_id, session_channel, entries, last_user,
                   seen_user, last_kind, emitted, shadow>>
    /\ UNCHANGED <<aggVars, pureVars>>

\* line 146
Return ==
    /\ pc = "glob"
    /\ pc' = "returned"
    /\ UNCHANGED <<nfiles, nlines, session_id, session_channel, entries, last_user,
                   seen_user, prev_final, last_kind, emitted, shadow>>
    /\ UNCHANGED <<aggVars, pureVars>>

Init ==
    /\ ScanInit
    /\ recs = <<>> /\ taken = {} /\ agg = EmptyAgg /\ aggP = EmptyAgg
    /\ arg = "" /\ res = "" /\ applied = FALSE

Next ==
    \/ DirMissing
    \/ BeginGlob
    \/ SkipFile
    \/ OpenFile(StemOf(nfiles + 1))
    \/ \E line \in Lines : ReadLine(line)
    \/ EndOfFile
    \/ Return

Spec == Init /\ [][Next]_vars

-----------------------------------------------------------------------------
(* aggregate as a state machine: one record per step.  A second fold takes *)
(* the same records in an order of its own, one not yet taken per step.    *)

\* the records scan_sessions can hand over: those of the billed assistant
\* lines, read under either channel state in either of two files
RecordsOf(channel, stem) ==
    {parse_line(channel, stem, l).out[1] :
        l \in {x \in AssistantLines : Len(parse_line(channel, stem, x).out) = 1}}

Records ==
    UNION {RecordsOf(c, Stems[n]) : c \in {NoneS, Str("telegram")}, n \in {1, 2}}

AggInit ==
    /\ recs \in UNION {[1..n -> Records] : n \in 0..MaxRecs}
    /\ taken = {}
    /\ agg = EmptyAgg
    /\ aggP = EmptyAgg

\* the records folded so far by the fold in input order
Folded == 1..Cardinality(taken)

\* lines 201-226, once
AggStep(i) ==
    /\ Cardinality(taken) < Len(recs)
    /\ i \in (1..Len(recs)) \ taken
    /\ agg' = fold_entry(agg, recs[Cardinality(taken) + 1])
    /\ aggP' = fold_entry(aggP, recs[i])
    /\ taken' = taken \cup {i}
    /\ UNCHANGED <<recs, scanVars, pureVars>>

\* line 228
AggDone == Cardinality(taken) = Len(recs)

InitAgg ==
    /\ AggInit
    /\ ScanInit
    /\ arg = "" /\ res = "" /\ applied = FALSE

NextAgg == \E i \in 1..MaxRecs : AggStep(i)

SpecAgg == InitAgg /\ [][NextAgg]_vars

-----------------------------------------------------------------------------
(* detect_channel applied to texts made of markers and near-markers.       *)

Chunks ==
    {"[Telegram", "[Discord", "[Signal", "[Slack", "[message_id:",
     "[", "Telegram", "[telegram", "hello ", "message_id:"}

RECURSIVE Concats(_)
Concats(n) ==
    IF n = 0 THEN {""}
    ELSE Concats(n - 1) \cup {a \o c : a \in Concats(n - 1), c \in Chunks}

InitClassify ==
    /\ ScanInit
    /\ recs = <<>> /\ taken = {} /\ agg = EmptyAgg /\ aggP = EmptyAgg
    /\ arg \in Concats(MaxChunks)
    /\ res = ""
    /\ applied = FALSE

\* lines 99-110 on the text of a user message
Classify ==
    /\ ~applied
    /\ res' = detect_channel(arg)
    /\ applied' = TRUE
    /\ UNCHANGED <<arg, scanVars, aggVars>>

SpecClassify == InitClassify /\ [][Classify]_vars

-----------------------------------------------------------------------------
(* to_local and the date and hour of the record, applied to timestamps.    *)

TimeDates ==
    {[y |-> 2026, m |-> 2, d |-> 3], [y |-> 2026, m |-> 3, d |-> 1],
     [y |-> 2024, m |-> 2, d |-> 29], [y |-> 2026, m |-> 1, d |-> 1],
     [y |-> 2025, m |-> 12, d |-> 31]}

\* offsets in minutes: +00:00, +05:00, -05:00, +05:30, -08:00, +14:00
TimeOffsets == {0, 300, -300, 330, -480, 840}

Timestamps ==
    {TsIso(date, h * 60 + mm, 0, form) :
        date \in TimeDates, h \in 0..23, mm \in {0, 30}, form \in {"Z", "naive"}}
    \cup {TsIso(date, h * 60 + mm, off, "offset") :
        date \in TimeDates, h \in 0..23, mm \in {0, 30}, off \in TimeOffsets}
    \cup {TsOther(k) : k \in {"absent", "null", "empty", "garbage", "number"}}

NoStamp == [ok |-> FALSE, date |-> "", hour |-> 0]

InitTime ==
    /\ ScanInit
    /\ recs = <<>> /\ taken = {} /\ agg = EmptyAgg /\ aggP = EmptyAgg
    /\ arg \in Timestamps
    /\ res = NoStamp
    /\ applied = FALSE

\* lines 119-129: local_dt, and the date and hour taken from it
Localize ==
    /\ ~applied
    /\ LET local_dt == IF TsTruthy(arg) THEN to_local(arg) ELSE NoneDt
       IN  res' = IF local_dt.ok
                  THEN [ok |-> TRUE, date |-> strftime(local_dt), hour |-> HourOf(local_dt)]
                  ELSE NoStamp
    /\ applied' = TRUE
    /\ UNCHANGED <<arg, scanVars, aggVars>>

SpecTime == InitTime /\ [][Localize]_vars

-----------------------------------------------------------------------------
(* The record of one assistant line, for stems of every length and usage   *)
(* objects with each field absent, null, zero or positive.                 *)

\* the stems: every non-empty prefix of a 13-character stem
LongStem == "0a1b2c3d-4e5f"
EntryStems == {SubSeq(LongStem, 1, n) : n \in 1..Len(LongStem)}

\* a usage whose total and cost are not the sums of their parts
CostBase == CostDict(Num(99), Num(1), Num(5), Num(3), Num(7))
UsageBase == UsageDict(Num(10), Num(50), Num(1000), Num(500), Num(1234), CostBase)

FieldValues == {AbsentN, NullN, Num(0), Num(7)}

EntryUsages ==
    {[UsageBase EXCEPT ![f] = v] :
        f \in {"input", "output", "cacheRead", "cacheWrite", "totalTokens"},
        v \in FieldValues}
    \cup {[UsageBase EXCEPT !.cost = [CostBase EXCEPT ![f] = v]] :
        f \in {"total", "input", "output", "cacheRead", "cacheWrite"},
        v \in FieldValues}
    \cup {[UsageBase EXCEPT !.cost = CostOther(k)] : k \in {"absent", "null"}}

\* model and provider on the message and on the outer record
EntryNames ==
    {[inner |-> i, outer |-> o] :
        i \in {AbsentS, NoneS, Str("opus")}, o \in {AbsentS, Str("flash")}}

EntryLines ==
    {[AssistantLine(u, Ts1) EXCEPT
         !.model = n.inner, !.outer_model = n.outer,
         !.provider = n.inner, !.outer_provider = n.outer] :
        u \in EntryUsages, n \in EntryNames}

NoResult == [raised |-> FALSE, channel |-> NoneS, out |-> <<>>]

InitEntry ==
    /\ ScanInit
    /\ recs = <<>> /\ taken = {} /\ agg = EmptyAgg /\ aggP = EmptyAgg
    /\ arg \in [stem : EntryStems, channel : {NoneS, Str("telegram")},
                 line : EntryLines]
    /\ res = NoResult
    /\ applied = FALSE

\* lines 78-144 for one line of the file arg.stem
EmitEntry ==
    /\ ~applied
    /\ res' = parse_line(arg.channel, arg.stem, arg.line)
    /\ applied' = TRUE
    /\ UNCHANGED <<arg, scanVars, aggVars>>

SpecEntry == InitEntry /\ [][EmitEntry]_vars

-----------------------------------------------------------------------------
(* Properties of the line parser.                                          *)

LastEntry == entries[Len(entries)]

\* C1: a record's channel is the classification of the text of the last user
\* message read before it in its file, whatever earlier user messages set.
ChannelIsPerTurn ==
    (emitted = 1 /\ seen_user) => LastEntry.channel = detect_channel(last_user)

\* C1: [telegram user, assistant, plain user, assistant] gave [telegram, other]
ChannelIsPerTurnWitness ==
    /\ nfiles = 1 /\ nlines = 4 /\ emitted = 1 /\ Len(entries) = 2
    /\ entries[1].channel = "telegram"
    /\ entries[2].channel = "other"
    /\ last_user = T_plain

\* C3: no exception leaves the scan, whatever a line holds.
NoExceptionEscapes == pc # "crashed"

\* C5: the channel state and the records are those of the same parse fed
\* the file without its undecodable lines.
UndecodableLinesDropped ==
    /\ shadow.entries = entries
    /\ shadow.channel = session_channel
    /\ shadow.raised = (pc = "crashed")

\* C5: an undecodable line read after a webchat turn and its record
UndecodableLinesDroppedWitness ==
    /\ last_kind = "undecodable"
    /\ session_channel = Str("webchat")
    /\ Len(entries) = 1
    /\ entries[1].channel = "webchat"

\* C6: a record of an assistant message that no user message precedes in its
\* own file has channel unknown.
ChannelResetPerFile ==
    (emitted = 1 /\ ~seen_user) => LastEntry.channel = "unknown"

\* C6: the second file's first record, after a file that ended in telegram
ChannelResetPerFileWitness ==
    /\ nfiles = 2 /\ prev_final = Str("telegram")
    /\ emitted = 1 /\ ~seen_user
    /\ LastEntry.channel = "unknown"
    /\ LastEntry.session_id = "sess"

\* C7: a line gives exactly one record if and only if it is an assistant
\* message with a usage object and a parseable timestamp, and none otherwise.
RecordIffBilledAssistant ==
    last_kind # "none" =>
        /\ emitted \in {0, 1}
        /\ (emitted = 1) <=> (last_kind = "assistant with usage and timestamp")

-----------------------------------------------------------------------------
(* Properties of detect_channel.                                           *)

Markers ==
    <<[marker |-> "[Telegram", tag |-> "telegram"],
      [marker |-> "[Discord", tag |-> "discord"],
      [marker |-> "[Signal", tag |-> "signal"],
      [marker |-> "[Slack", tag |-> "slack"],
      [marker |-> "[message_id:", tag |-> "webchat"]>>

Present(text) == {i \in 1..Len(Markers) : Contains(text, Markers[i].marker)}

\* C2: the tag is that of the earliest marker, in the order of Markers, that
\* occurs in the text, and other when none does; so telegram beats webchat.
FirstMarkerWins ==
    applied =>
        /\ Present(arg) = {} => res = "other"
        /\ \A i \in Present(arg) :
               (\A j \in Present(arg) : i <= j) => res = Markers[i].tag
        /\ (Contains(arg, "[Telegram") /\ Contains(arg, "[message_id:"))
               => res = "telegram"

\* C2: a text with the webchat marker before the telegram one
FirstMarkerWinsWitness ==
    /\ applied
    /\ arg = "[message_id:" \o "[Telegram"
    /\ res = "telegram"

-----------------------------------------------------------------------------
(* Properties of the timestamp conversion.                                 *)

\* the instant of a timestamp in UTC, then 8 hours earlier
UtcMinus8(ts) ==
    AddMinutes(AddMinutes([date |-> ts.date, minute |-> ts.minute, off |-> 0],
                          0 - ts.off), TZ_OFFSET * 60)

\* C4: the date and hour of a timestamp with a numeric offset are those of
\* its UTC instant moved 8 hours back.
OffsetNormalizedToUtc ==
    (applied /\ arg.k = "iso" /\ arg.form = "offset") =>
        /\ res.ok
        /\ res.date = strftime(UtcMinus8(arg))
        /\ res.hour = HourOf(UtcMinus8(arg))

-----------------------------------------------------------------------------
(* Properties of aggregate.                                                *)

RECURSIVE SumField(_, _)
SumField(I, f) ==
    IF I = {} THEN 0
    ELSE LET i == CHOOSE x \in I : TRUE
         IN  recs[i][f] + SumField(I \ {i}, f)

TokenFields == {"input", "output", "cache_read", "cache_write", "total"}
TotalsFields == TokenFields \cup {"cost"}
ModelFields ==
    TotalsFields \cup {"cost_input", "cost_output", "cost_cache_read", "cost_cache_write"}
ChannelFields == {"input", "output", "total", "cost"}
HourFields == {"total"}

\* a grouping holds the keys of the records I and, for each, their count and
\* the sums of the fields F over those of that key
GroupingIs(m, I, keyField, F) ==
    /\ DOMAIN m = {recs[i][keyField] : i \in I}
    /\ \A key \in DOMAIN m :
           LET K == {i \in I : recs[i][keyField] = key}
           IN  /\ m[key].calls = Cardinality(K)
               /\ \A f \in F : m[key][f] = SumField(K, f)

\* C8: after any number of records, totals and each grouping hold every
\* record folded so far exactly once, in the bucket of its key and no other.
EachRecordFoldedOnce ==
    /\ agg.totals.calls = Cardinality(Folded)
    /\ \A f \in TotalsFields : agg.totals[f] = SumField(Folded, f)
    /\ GroupingIs(agg.by_date, Folded, "date", TotalsFields)
    /\ GroupingIs(agg.by_model, Folded, "model", ModelFields)
    /\ GroupingIs(agg.by_channel, Folded, "channel", ChannelFields)
    /\ GroupingIs(agg.by_session, Folded, "session_id", ChannelFields)
    /\ GroupingIs(agg.by_hour, Folded, "hour", HourFields)
    /\ Folded = {} => agg = EmptyAgg

\* C8: three records over two models, two of them on one date
EachRecordFoldedOnceWitness ==
    /\ AggDone /\ Len(recs) = 3
    /\ Cardinality(DOMAIN agg.by_model) = 2
    /\ \E key \in DOMAIN agg.by_date : agg.by_date[key].calls = 2
    /\ Cardinality(DOMAIN agg.by_hour) = 3

\* C9: the totals of the token fields and the call count are the sums over
\* the records, in whatever order the records are folded.
TotalsOrderIndependent ==
    AggDone =>
        /\ agg.totals.calls = Len(recs) /\ aggP.totals.calls = Len(recs)
        /\ \A f \in TokenFields :
               /\ agg.totals[f] = SumField(1..Len(recs), f)
               /\ aggP.totals[f] = agg.totals[f]

\* C9: two folds of three records that took them in different orders
TotalsOrderIndependentWitness ==
    /\ AggDone /\ Len(recs) = 3
    /\ aggP.by_session # agg.by_session
    /\ agg.totals.total > agg.totals.input
    /\ aggP.totals = agg.totals

\* C10, as stated: folding the records in any order gives the same Aggregate,
\* the displayed channel and model of each session bucket included.
AggregateOrderIndependent == AggDone => aggP = agg

Sums(b, F) == [f \in F \cup {"calls"} |-> b[f]]
SumsOf(m, F) == [key \in DOMAIN m |-> Sums(m[key], F)]

\* C10, amended: in any order the folds agree on the keys of every grouping,
\* on the call counts and on the sums of the token fields; the last-seen
\* channel and model of a session bucket are left out.
TokenSumsOrderIndependent ==
    AggDone =>
        /\ Sums(aggP.totals, TokenFields) = Sums(agg.totals, TokenFields)
        /\ SumsOf(aggP.by_date, TokenFields) = SumsOf(agg.by_date, TokenFields)
        /\ SumsOf(aggP.by_model, TokenFields) = SumsOf(agg.by_model, TokenFields)
        /\ SumsOf(aggP.by_channel, {"input", "output", "total"})
               = SumsOf(agg.by_channel, {"input", "output", "total"})
        /\ SumsOf(aggP.by_session, {"input", "output", "total"})
               = SumsOf(agg.by_session, {"input", "output", "total"})
        /\ SumsOf(aggP.by_hour, {"total"}) = SumsOf(agg.by_hour, {"total"})

\* C10: two orders that leave one session bucket with different channels
TokenSumsOrderIndependentWitness ==
    /\ AggDone
    /\ \E sid \in DOMAIN agg.by_session :
           /\ agg.by_session[sid].calls >= 2
           /\ aggP.by_session[sid].channel # agg.by_session[sid].channel

-----------------------------------------------------------------------------
(* Properties of the record of one line.                                   *)

\* C11, as stated: the session id of a record has exactly 8 characters, the
\* first 8 of the stem of its file, whatever the length of the stem.
SessionIdExactly8 ==
    (applied /\ Len(res.out) = 1) =>
        /\ Len(res.out[1].session_id) = 8
        /\ \E rest \in {SubSeq(arg.stem, n, Len(arg.stem)) : n \in 1..(Len(arg.stem) + 1)} :
               arg.stem = res.out[1].session_id \o rest

\* C11, amended: the session id is a prefix of the stem; it has 8 characters
\* when the stem has at least 8 and is the whole stem when the stem is shorter.
SessionIdIsPrefix ==
    (applied /\ Len(res.out) = 1) =>
        LET sid == res.out[1].session_id
        IN  /\ \E rest \in {SubSeq(arg.stem, n, Len(arg.stem)) :
                               n \in 1..(Len(arg.stem) + 1)} : arg.stem = sid \o rest
            /\ Len(arg.stem) >= 8 => Len(sid) = 8
            /\ Len(arg.stem) < 8 => sid = arg.stem

\* C11: the record of a line of the 13-character stem
SessionIdIsPrefixWitness ==
    /\ applied /\ Len(res.out) = 1
    /\ arg.stem = "0a1b2c3d-4e5f"
    /\ res.out[1].session_id = "0a1b2c3d"

-----------------------------------------------------------------------------
(* Properties of Z-suffixed timestamps.                                    *)

\* the days of TimeDates as written, each with the calendar day before it
Calendar ==
    {[date |-> [y |-> 2026, m |-> 2, d |-> 3], day |-> "2026-02-03", before |-> "2026-02-02"],
     [date |-> [y |-> 2026, m |-> 3, d |-> 1], day |-> "2026-03-01", before |-> "2026-02-28"],
     [date |-> [y |-> 2024, m |-> 2, d |-> 29], day |-> "2024-02-29", before |-> "2024-02-28"],
     [date |-> [y |-> 2026, m |-> 1, d |-> 1], day |-> "2026-01-01", before |-> "2025-12-31"],
     [date |-> [y |-> 2025, m |-> 12, d |-> 31], day |-> "2025-12-31", before |-> "2025-12-30"]}

\* C12: for a Z-suffixed timestamp of UTC hour h on day D, the hour is
\* (h - 8) mod 24, within 0..23, and the date is D when h >= 8 and the day
\* before D when h < 8.
ZStampEightHoursBack ==
    (applied /\ arg.k = "iso" /\ arg.form = "Z") =>
        LET h == arg.minute \div 60
        IN  /\ res.ok
            /\ res.hour = (h - 8) % 24
            /\ res.hour \in 0..23
            /\ \E c \in Calendar :
                   /\ c.date = arg.date
                   /\ res.date = IF h >= 8 THEN c.day ELSE c.before

\* C12: 2026-02-03T04:30:00Z gives date 2026-02-02, hour 20
ZStampEightHoursBackWitness ==
    /\ applied
    /\ arg = TsIso([y |-> 2026, m |-> 2, d |-> 3], 270, 0, "Z")
    /\ res = [ok |-> TRUE, date |-> "2026-02-02", hour |-> 20]

-----------------------------------------------------------------------------
(* Frame of the channel state.                                             *)

AssistantKinds ==
    {"assistant with usage and timestamp", "assistant without usage",
     "assistant without timestamp"}

\* C13: reading a line that is no user message leaves the channel state as
\* it was, and reading a line that is no assistant message adds no record.
OnlyUserLinesSetChannel ==
    [][nlines' = nlines + 1 =>
          /\ last_kind' # "user" => session_channel' = session_channel
          /\ last_kind' \notin AssistantKinds => entries' = entries]_vars

\* C13: three assistant messages after one telegram user message, three
\* telegram records
OnlyUserLinesSetChannelWitness ==
    /\ nfiles = 1 /\ nlines = 4 /\ Len(entries) = 3
    /\ last_user = T_telegram
    /\ \A i \in 1..3 : entries[i].channel = "telegram"
    /\ session_channel = Str("telegram")

-----------------------------------------------------------------------------
(* Defaults of the fields of a record.                                     *)

\* the value a numeric source field stands for: itself, or 0 when the field
\* is absent or null
Reported(v) == IF v.k = "num" THEN v.n ELSE 0

\* the source of model and provider: the message's, else the outer record's
NameSource(inner, outer) == IF inner.k = "absent" THEN outer ELSE inner

\* an identifier string: the source when there is one, else unknown
NameIs(name, source) ==
    /\ name.k = "str"
    /\ source.k = "absent" => name.s = "unknown"
    /\ source.k = "str" => name.s = source.s

\* C14: the ten numeric fields of a record are the values the usage reports,
\* 0 for an absent or null field and for all cost fields of an absent or null
\* cost; model and provider are strings, the source's or unknown; total and
\* cost are as reported, not the sums of the parts.
FieldDefaults ==
    (applied /\ Len(res.out) = 1) =>
        LET e == res.out[1]
            u == arg.line.usage
        IN  /\ e.input = Reported(u.input)
            /\ e.output = Reported(u.output)
            /\ e.cache_read = Reported(u.cacheRead)
            /\ e.cache_write = Reported(u.cacheWrite)
            /\ e.total = Reported(u.totalTokens)
            /\ e.cost = Reported(u.cost.total)
            /\ e.cost_input = Reported(u.cost.input)
            /\ e.cost_output = Reported(u.cost.output)
            /\ e.cost_cache_read = Reported(u.cost.cacheRead)
            /\ e.cost_cache_write = Reported(u.cost.cacheWrite)
            /\ u.cost.k \in {"absent", "null"} =>
                   /\ e.cost = 0 /\ e.cost_input = 0 /\ e.cost_output = 0
                   /\ e.cost_cache_read = 0 /\ e.cost_cache_write = 0
            /\ NameIs(e.model, NameSource(arg.line.model, arg.line.outer_model))
            /\ NameIs(e.provider, NameSource(arg.line.provider, arg.line.outer_provider))

-----------------------------------------------------------------------------
(* Conservation across the groupings of aggregate.                         *)

RECURSIVE SumBuckets(_, _)
SumBuckets(m, f) ==
    IF DOMAIN m = {} THEN 0
    ELSE LET key == CHOOSE x \in DOMAIN m : TRUE
         IN  m[key][f] + SumBuckets([x \in DOMAIN m \ {key} |-> m[x]], f)

\* the buckets of a grouping add up to the totals in each of the fields F
Conserves(m, F) == \A f \in F : SumBuckets(m, f) = agg.totals[f]

\* C15: after any prefix of the records, the buckets of each of the five
\* groupings add up to the totals in calls and total, and in input and output
\* for the four groupings that carry them.
GroupingsConserveTotals ==
    /\ Conserves(agg.by_date, {"calls", "total", "input", "output"})
    /\ Conserves(agg.by_model, {"calls", "total", "input", "output"})
    /\ Conserves(agg.by_channel, {"calls", "total", "input", "output"})
    /\ Conserves(agg.by_session, {"calls", "total", "input", "output"})
    /\ Conserves(agg.by_hour, {"calls", "total"})

\* C15: a strict prefix of three records, two folded into one bucket of a
\* grouping and into two buckets of another
GroupingsConserveTotalsWitness ==
    /\ Len(recs) = 3 /\ Cardinality(taken) = 2
    /\ agg.totals.calls = 2 /\ agg.totals.total > 0
    /\ Cardinality(DOMAIN agg.by_channel) = 1
    /\ Cardinality(DOMAIN agg.by_hour) = 2

=============================================================================
